---- MODULE Spec2Model ----
(***************************************************************************)
(* soa2ledger: one statement-of-account row is turned into an Entry, the   *)
(* Entry is resolved against the import rules and rendered as ledger text. *)
(*                                                                         *)
(* Representation.  A Python str is a TLA+ string when the program only    *)
(* compares or prints it (dates, parties, account names, titles) and a     *)
(* sequence of one-character strings when the program rewrites it          *)
(* (amount, currency, the sub-amounts of a split).  A text built by        *)
(* f-strings and += is the sequence of the pieces that were concatenated;  *)
(* the line break "\n" is a piece of its own.  A dict is a function whose  *)
(* DOMAIN is the set of keys it holds.                                     *)
(***************************************************************************)
EXTENDS Integers, Sequences, FiniteSets, TLC

VARIABLES
    options,        \* the options dict of main (rules included), never written
    pc,             \* position of main: "fetch", "info", "build", "built", "done", "crashed"
    EL,             \* raw_entry of the current iteration
    e,              \* the Entry of the current iteration
    info_string,    \* result of the last build_info_string call on e
    entry_string,   \* result of the last build_entry_string call on e
    template,       \* result of the last direct entry_template call on e
    prev,           \* results of the calls before the last ones, per method
    calls,          \* calls made on e so far, per method
    filter_log,     \* the filter_rules calls of the last build_entry_string
    combined,       \* combined of the current iteration, <<>> before line 265
    edited,         \* edited of the current iteration, <<>> before line 269
    sink,           \* where the text of the current iteration went
    exc             \* the exception that ended main, "none" while it runs

vars == <<options, pc, EL, e, info_string, entry_string, template,
          prev, calls, filter_log, combined, edited, sink, exc>>

----------------------------------------------------------------------------
(* Bounds of the model *)

\* longest rule list read from soa2ledger-rules.ini
MaxRules == 2
\* most calls of one method on one Entry
MaxCalls == 2

----------------------------------------------------------------------------
(* Python values *)

\* the value None
PyNone == "<None>"
\* an attribute that is annotated but was never assigned (lines 138, 140)
Unset == "<unset>"
\* no exception
NoExc == "none"
NL == "\n"

\* str(x), as an f-string formats a value
Str(x) == IF x = PyNone THEN "None" ELSE x

\* d.get(key, default)
Get(d, key, default) == IF key \in DOMAIN d THEN d[key] ELSE default

\* s.replace(old, new) for one-character old and new
Replace(s, old, new) == [k \in 1..Len(s) |-> IF s[k] = old THEN new ELSE s[k]]

\* n * " "
Spaces(n) == [k \in 1..n |-> " "]

\* 60 * "#"
HashRun == "############################################################"

\* the str 'None' returned by eval_rule, in the representation of the field
NoneStr(rule_for) ==
    IF rule_for \in {"amount", "currency", "subject"}
    THEN <<"N", "o", "n", "e">>
    ELSE "None"

----------------------------------------------------------------------------
(* default_options, lines 10-26 *)

DefaultLedgerIndent == 4

\* a field whose extraction expression is not configured: options.get gives None
Missing == [kind |-> "none"]
\* the expression  EL.find('<tag>').text
Find(tag) == [kind |-> "find", tag |-> tag]
\* the expression  EL.attrib['<tag>']
Attrib(tag) == [kind |-> "attrib", tag |-> tag]

Fields == <<"book_date", "val_date", "amount", "currency", "creditor",
            "debitor", "subject">>

FieldSet == {Fields[k] : k \in 1..Len(Fields)}

\* the tag each extraction expression of the modelled configuration reads
TagOf(rule_for) ==
    CASE rule_for = "book_date" -> "BookgDt"
      [] rule_for = "val_date"  -> "ValDt"
      [] rule_for = "amount"    -> "Amt"
      [] rule_for = "currency"  -> "Ccy"
      [] rule_for = "creditor"  -> "Cdtr"
      [] rule_for = "debitor"   -> "Dbtr"
      [] rule_for = "subject"   -> "Ustrd"

----------------------------------------------------------------------------
(* The import rules: sections of soa2ledger-rules.ini, line 61 *)

\* a cdtr_acc that encodes a split
SplitLiteral == "[['Expenses:Food', 61.72], ['Expenses:Household', 61.73]]"

\* creditor_acc.startswith('[['), on the strings of the model
StartsWithBrackets(s) == s = SplitLiteral

\* eval(creditor_acc) of a split; amt is str(line[1])
PyEvalSplit(s) ==
    CASE s = SplitLiteral ->
        << [acc |-> "Expenses:Food",      amt |-> <<"6", "1", ".", "7", "2">>],
           [acc |-> "Expenses:Household", amt |-> <<"6", "1", ".", "7", "3">>] >>

RuleCandidates ==
    { [account |-> "giro", dbtr |-> "Myself", cdtr |-> "Supermarket",
       cdtr_acc |-> "Expenses:Food"],
      [dbtr |-> "Myself", cdtr |-> "Supermarket", cdtr_acc |-> SplitLiteral,
       dbtr_acc |-> "Assets:Giro", title |-> "Groceries"],
      [dbtr |-> "Myself", cdtr |-> "Supermarket"],
      [account |-> "visa", dbtr |-> "Myself", cdtr_acc |-> "Expenses:Card"],
      [dbtr |-> "Employer GmbH", dbtr_acc |-> "Income:Salary", title |-> "Salary"],
      [cdtr |-> "Jane Doe", cdtr_acc |-> "Expenses:Rent"] }

RuleLists == UNION {[1..n -> RuleCandidates] : n \in 0..MaxRules}

----------------------------------------------------------------------------
(* The configuration: get_updated_options, lines 29-64 *)

\* every field configured; the debitor is read with EL.attrib[...]
Configured ==
    [f \in FieldSet |-> IF f = "debitor" THEN Attrib(TagOf(f)) ELSE Find(TagOf(f))]

ExprConfigs ==
    { Configured,
      [Configured EXCEPT !["val_date"] = Missing],
      [Configured EXCEPT !["currency"] = Missing] }

\* --dryrun (line 45), and editor and ledger_file (lines 12, 14), which are read
\* only without --dryrun
SinkConfigs ==
    {[dryrun |-> TRUE, editor |-> PyNone, ledger_file |-> PyNone]}
    \cup {[dryrun |-> FALSE, editor |-> ed, ledger_file |-> lf] :
            ed \in {PyNone, "vi"}, lf \in {PyNone, "ledger.dat"}}

OptionsSet ==
    { [f \in FieldSet \cup {"ledger_indent", "def_asset_acc", "account", "rules",
                            "dryrun", "editor", "ledger_file"} |->
         CASE f = "ledger_indent" -> DefaultLedgerIndent
           [] f = "def_asset_acc" -> d
           [] f = "account"       -> "giro"
           [] f = "rules"         -> r
           [] f = "dryrun"        -> k.dryrun
           [] f = "editor"        -> k.editor
           [] f = "ledger_file"   -> k.ledger_file
           [] OTHER               -> x[f]] :
      d \in {PyNone, "Assets:Bank"}, r \in RuleLists, x \in ExprConfigs,
      k \in SinkConfigs }

\* what the editor may leave in the temporary file: the text as it was, or
\* a text the user wrote
Edits(text) == {text, <<"; edited", NL>>}

----------------------------------------------------------------------------
(* The raw rows: iterable_from_file, lines 67-97 *)

FullRows ==
    { [BookgDt |-> "2020-01-02", ValDt |-> d[1], Amt |-> d[2],
       Ccy |-> <<"E", "U", "R">>, Cdtr |-> c, Dbtr |-> b, Ustrd |-> <<"Invoice 1">>] :
      d \in {<<"2020-01-02", <<"1", "2", "3", ".", "4", "5">> >>,
             <<"2020-01-03", <<"5">> >>},
      c \in {"Supermarket", "Jane Doe"},
      b \in {"Myself", "Employer GmbH"} }

\* a row without one of its elements
Without(row, tag) == [t \in DOMAIN row \ {tag} |-> row[t]]

RawRows ==
    FullRows
    \cup {Without(r, "Cdtr") : r \in {x \in FullRows : x.Cdtr = "Jane Doe"}}
    \cup {Without(r, "Dbtr") : r \in {x \in FullRows : x.Cdtr = "Jane Doe" /\ x.Dbtr = "Myself"}}

----------------------------------------------------------------------------
(* class Entry *)

NoEntry == [none |-> TRUE]
NoResult == [exc |-> "nocall", text |-> <<>>]

\* Entry.eval_rule, lines 144-154
eval_rule(opts, el, rule_for) ==
    LET rule == opts[rule_for] IN
    CASE rule.kind = "none" ->
            \* eval(None): "eval() arg 1 must be a string, bytes or code object"
            [exc |-> "TypeError"]
      [] rule.kind = "find" ->
            IF rule.tag \in DOMAIN el
            THEN [exc |-> NoExc, val |-> el[rule.tag]]
            \* EL.find(tag) is None, .text raises AttributeError, caught
            ELSE [exc |-> NoExc, val |-> NoneStr(rule_for)]
      [] rule.kind = "attrib" ->
            IF rule.tag \in DOMAIN el
            THEN [exc |-> NoExc, val |-> el[rule.tag]]
            \* KeyError is not caught
            ELSE [exc |-> "KeyError"]

\* Entry.__init__, lines 129-142
Construct(el, opts) ==
    LET r == [f \in FieldSet |-> eval_rule(opts, el, f)]
        failing == {k \in 1..Len(Fields) : r[Fields[k]].exc # NoExc}
    IN  IF failing # {}
        THEN [exc |-> r[Fields[CHOOSE k \in failing : \A j \in failing : k <= j]].exc,
              e |-> NoEntry]
        ELSE [exc |-> NoExc,
              e |-> [def_asset_acc |-> opts.def_asset_acc,
                     book_date     |-> r["book_date"].val,
                     val_date      |-> r["val_date"].val,
                     amount        |-> r["amount"].val,
                     currency      |-> Replace(r["currency"].val, ".", ","),
                     creditor      |-> r["creditor"].val,
                     creditor_acc  |-> Unset,
                     debitor       |-> r["debitor"].val,
                     debitor_acc   |-> Unset,
                     subject       |-> r["subject"].val,
                     title         |-> r["creditor"].val]]

RECURSIVE SubjectLines(_)
\* the loop of build_info_string, lines 159-160
SubjectLines(subject) ==
    IF subject = <<>> THEN <<>>
    ELSE <<"; ", Head(subject), NL>> \o SubjectLines(Tail(subject))

\* Entry.build_info_string, lines 156-162
build_info_string(en) ==
    <<"; ", en.book_date, "=", en.val_date, ": ", en.debitor, " --> ", en.creditor, NL>>
    \o SubjectLines(en.subject)
    \o <<"; ", HashRun, NL>>

RECURSIVE SplitPostings(_, _, _)
\* the loop over the split, lines 182-184
SplitPostings(lines, ind, currency) ==
    IF lines = <<>> THEN <<>>
    ELSE LET line == Head(lines)
             amount_p == Replace(line.amt, ".", ",")
         IN  ind \o <<line.acc>> \o ind \o currency \o <<" ">> \o amount_p \o <<NL>>
             \o SplitPostings(Tail(lines), ind, currency)

\* Entry.entry_template, lines 164-188
entry_template(en, opts) ==
    LET ind == Spaces(opts.ledger_indent)
        head == IF en.book_date = en.val_date
                THEN <<en.book_date, " ", Str(en.title), NL>>
                ELSE <<en.book_date, "=", en.val_date, " ", Str(en.title), NL>>
        last == ind \o <<Str(en.debitor_acc)>> \o ind \o en.currency
                \o <<" ", "-">> \o en.amount
    IN  IF en.creditor_acc = PyNone
        \* None has no startswith
        THEN [exc |-> "AttributeError", text |-> <<>>]
        ELSE IF StartsWithBrackets(en.creditor_acc)
        THEN [exc |-> NoExc,
              text |-> head
                       \o SplitPostings(PyEvalSplit(en.creditor_acc), ind, en.currency)
                       \o last]
        ELSE [exc |-> NoExc,
              text |-> head
                       \o ind \o <<en.creditor_acc>> \o ind \o en.currency
                       \o <<" ">> \o en.amount \o <<NL>>
                       \o last]

\* filter_rules written as  rule.get(key) == val : a rule without the key is dropped
filter_rules_strict(rules, key, val) ==
    SelectSeq(rules, LAMBDA rule : key \in DOMAIN rule /\ rule[key] = val)

\* filter_rules, lines 199-205
filter_rules(rules, key, val) ==
    SelectSeq(rules, LAMBDA rule : Get(rule, key, val) = val)

\* no debitor match, lines 214-216
AssignUnmatchedIncoming(en) ==
    [en EXCEPT !.title = en.debitor,
               !.creditor_acc = en.def_asset_acc,
               !.debitor_acc = "Income:???"]

\* one debitor match, lines 222-225
AssignIncome(en, match) ==
    [en EXCEPT !.title = Get(match, "title", en.creditor),
               !.debitor_acc = Get(match, "dbtr_acc", PyNone),
               !.creditor_acc = Get(match, "cdtr_acc", en.def_asset_acc)]

\* no creditor match, lines 232-233
AssignUnmatchedExpense(en) ==
    [en EXCEPT !.creditor_acc = "Expenses:???",
               !.debitor_acc = en.def_asset_acc]

\* one creditor match, lines 237-240
AssignExpense(en, match) ==
    [en EXCEPT !.title = Get(match, "title", en.creditor),
               !.creditor_acc = Get(match, "cdtr_acc", PyNone),
               !.debitor_acc = Get(match, "dbtr_acc", en.def_asset_acc)]

\* lines 245-248 written with  match.get('title', self.title) : a candidate
\* without a title keeps the title the Entry already carries
AssignCandidateKeepTitle(en, match) ==
    [en EXCEPT !.title = Get(match, "title", en.title),
               !.creditor_acc = Get(match, "cdtr_acc", PyNone),
               !.debitor_acc = Get(match, "dbtr_acc", en.def_asset_acc)]

\* one of several creditor matches, lines 245-248
AssignCandidate(en, match) ==
    [en EXCEPT !.title = Get(match, "title", en.creditor),
               !.creditor_acc = Get(match, "cdtr_acc", PyNone),
               !.debitor_acc = Get(match, "dbtr_acc", en.def_asset_acc)]

\* the header of the ambiguous outcome, line 243
MultipleHeader == <<";", NL, "; Multiple matches. Pick one", NL>>

RECURSIVE CandidateLoop(_, _, _, _)
\* the loop over matches_cdtr, lines 244-249; an exception leaves the loop
CandidateLoop(en, opts, matches, text) ==
    IF matches = <<>> THEN [exc |-> NoExc, text |-> text, e |-> en]
    ELSE LET e1 == AssignCandidate(en, Head(matches))
             t == entry_template(e1, opts)
         IN  IF t.exc # NoExc
             THEN [exc |-> t.exc, text |-> <<>>, e |-> e1]
             ELSE CandidateLoop(e1, opts, Tail(matches), text \o t.text \o <<NL>>)

\* one recorded call of filter_rules
FilterCall(rules, key, val) ==
    [rules |-> rules, key |-> key, val |-> val, result |-> filter_rules(rules, key, val)]

\* Entry.build_entry_string, lines 190-250
build_entry_string(en, opts) ==
    LET account == opts.account
        import_rules == opts.rules
        c1 == FilterCall(import_rules, "account", account)
        account_rules == c1.result
        c2 == FilterCall(account_rules, "dbtr", en.debitor)
        matches_dbtr == c2.result
        c3 == FilterCall(matches_dbtr, "cdtr", en.creditor)
        matches_cdtr == c3.result
        Single(e1, log) ==
            LET t == entry_template(e1, opts)
            IN  [exc |-> t.exc, text |-> t.text, e |-> e1, log |-> log]
    IN  IF Len(matches_dbtr) = 0
        THEN Single(AssignUnmatchedIncoming(en), <<c1, c2>>)
        ELSE IF Len(matches_dbtr) = 1
        THEN Single(AssignIncome(en, matches_dbtr[1]), <<c1, c2>>)
        ELSE IF Len(matches_cdtr) = 0
        THEN Single(AssignUnmatchedExpense(en), <<c1, c2, c3>>)
        ELSE IF Len(matches_cdtr) = 1
        THEN Single(AssignExpense(en, matches_cdtr[1]), <<c1, c2, c3>>)
        ELSE LET r == CandidateLoop(en, opts, matches_cdtr, MultipleHeader)
             IN  [exc |-> r.exc, text |-> r.text, e |-> r.e, log |-> <<c1, c2, c3>>]

----------------------------------------------------------------------------
(* main, lines 253-270, and the methods of the current Entry as operations *)

NoCalls == [info |-> 0, build |-> 0, template |-> 0]
NoPrev == [info |-> NoResult, build |-> NoResult, template |-> NoResult]

Init ==
    /\ options \in OptionsSet
    /\ pc = "fetch"
    /\ EL = NoEntry
    /\ e = NoEntry
    /\ info_string = NoResult
    /\ entry_string = NoResult
    /\ template = NoResult
    /\ prev = NoPrev
    /\ calls = NoCalls
    /\ filter_log = <<>>
    /\ combined = <<>>
    /\ edited = <<>>
    /\ sink = "none"
    /\ exc = NoExc

\* lines 261-262: the next raw_entry of the iterable becomes an Entry
Fetch ==
    /\ pc = "fetch"
    /\ \E raw_entry \in RawRows :
         LET c == Construct(raw_entry, options) IN
         /\ EL' = raw_entry
         /\ e' = c.e
         /\ exc' = c.exc
         /\ pc' = IF c.exc = NoExc THEN "info" ELSE "crashed"
    \* combined and edited of the iteration before are not read again
    /\ combined' = <<>>
    /\ edited' = <<>>
    /\ sink' = "none"
    /\ UNCHANGED <<options, info_string, entry_string, template, prev, calls,
                   filter_log>>

\* line 261: the iterable is exhausted
Finish ==
    /\ pc = "fetch"
    /\ pc' = "done"
    /\ UNCHANGED <<options, EL, e, info_string, entry_string, template,
                   prev, calls, filter_log, combined, edited, sink, exc>>

\* line 263, and any later call of e.build_info_string()
BuildInfoString ==
    /\ pc \in {"info", "built"}
    /\ calls.info < MaxCalls
    /\ info_string' = [exc |-> NoExc, text |-> build_info_string(e)]
    /\ prev' = [prev EXCEPT !.info = info_string]
    /\ calls' = [calls EXCEPT !.info = @ + 1]
    /\ pc' = IF pc = "info" THEN "build" ELSE pc
    /\ UNCHANGED <<options, EL, e, entry_string, template, filter_log,
                   combined, edited, sink, exc>>

\* line 264, and any later call of e.build_entry_string(options)
BuildEntryString ==
    /\ pc \in {"build", "built"}
    /\ calls.build < MaxCalls
    /\ LET r == build_entry_string(e, options) IN
         /\ e' = r.e
         /\ entry_string' = [exc |-> r.exc, text |-> r.text]
         /\ filter_log' = r.log
    /\ prev' = [prev EXCEPT !.build = entry_string]
    /\ calls' = [calls EXCEPT !.build = @ + 1]
    /\ pc' = "built"
    /\ UNCHANGED <<options, EL, info_string, template, combined, edited, sink, exc>>

\* a call of e.entry_template(options) on the resolved Entry
EntryTemplate ==
    /\ pc = "built"
    /\ calls.template < MaxCalls
    /\ template' = entry_template(e, options)
    /\ prev' = [prev EXCEPT !.template = template]
    /\ calls' = [calls EXCEPT !.template = @ + 1]
    /\ UNCHANGED <<options, pc, EL, e, info_string, entry_string, filter_log,
                   combined, edited, sink, exc>>

\* lines 265-267: with --dryrun the combined text is printed
EmitPrint ==
    /\ pc = "built"
    /\ entry_string.exc = NoExc
    /\ options.dryrun = TRUE
    /\ combined' = info_string.text \o entry_string.text
    /\ sink' = "stdout"
    /\ pc' = "fetch"
    \* e and the strings of this iteration are not read again
    /\ EL' = NoEntry
    /\ e' = NoEntry
    /\ info_string' = NoResult
    /\ entry_string' = NoResult
    /\ template' = NoResult
    /\ prev' = NoPrev
    /\ calls' = NoCalls
    /\ filter_log' = <<>>
    /\ UNCHANGED <<options, edited, exc>>

\* lines 265, 268-270: the combined text goes through the editor (lines 100-112)
\* and what the editor left is appended to the ledger file (lines 115-121)
EmitAppend ==
    /\ pc = "built"
    /\ entry_string.exc = NoExc
    /\ options.dryrun # TRUE
    /\ options.editor # PyNone
    /\ options.ledger_file # PyNone
    /\ combined' = info_string.text \o entry_string.text
    /\ edited' \in Edits(combined')
    /\ sink' = "ledger"
    /\ pc' = "fetch"
    \* e and the strings of this iteration are not read again
    /\ EL' = NoEntry
    /\ e' = NoEntry
    /\ info_string' = NoResult
    /\ entry_string' = NoResult
    /\ template' = NoResult
    /\ prev' = NoPrev
    /\ calls' = NoCalls
    /\ filter_log' = <<>>
    /\ UNCHANGED <<options, exc>>

\* lines 265, 268-269: call([None, tmp.name]) raises TypeError, main ends
EmitNoEditor ==
    /\ pc = "built"
    /\ entry_string.exc = NoExc
    /\ options.dryrun # TRUE
    /\ options.editor = PyNone
    /\ combined' = info_string.text \o entry_string.text
    /\ exc' = "TypeError"
    /\ pc' = "crashed"
    /\ UNCHANGED <<options, EL, e, info_string, entry_string, template,
                   prev, calls, filter_log, edited, sink>>

\* lines 265, 268-270: the editor has run, open(None, 'a') raises TypeError,
\* nothing is appended, main ends
EmitNoLedgerFile ==
    /\ pc = "built"
    /\ entry_string.exc = NoExc
    /\ options.dryrun # TRUE
    /\ options.editor # PyNone
    /\ options.ledger_file = PyNone
    /\ combined' = info_string.text \o entry_string.text
    /\ edited' \in Edits(combined')
    /\ exc' = "TypeError"
    /\ pc' = "crashed"
    /\ UNCHANGED <<options, EL, e, info_string, entry_string, template,
                   prev, calls, filter_log, sink>>

\* line 264: the exception of build_entry_string leaves main
Abort ==
    /\ pc = "built"
    /\ entry_string.exc # NoExc
    /\ exc' = entry_string.exc
    /\ pc' = "crashed"
    /\ UNCHANGED <<options, EL, e, info_string, entry_string, template,
                   prev, calls, filter_log, combined, edited, sink>>

Next ==
    \/ Fetch
    \/ Finish
    \/ BuildInfoString
    \/ BuildEntryString
    \/ EntryTemplate
    \/ EmitPrint
    \/ EmitAppend
    \/ EmitNoEditor
    \/ EmitNoLedgerFile
    \/ Abort

Spec == Init /\ [][Next]_vars

----------------------------------------------------------------------------
(* Reading a rendered text back: lines, posting groups, amounts *)

\* the positions of the line breaks, ascending
Breaks(text) == SelectSeq([k \in 1..Len(text) |-> k], LAMBDA k : text[k] = NL)

\* the lines of a text, without their line breaks
Lines(text) ==
    LET B == Breaks(text)
        n == Len(B)
        ended == [j \in 1..n |-> SubSeq(text, (IF j = 1 THEN 1 ELSE B[j-1] + 1), B[j] - 1)]
        rest == SubSeq(text, (IF n = 0 THEN 1 ELSE B[n] + 1), Len(text))
    IN  IF rest = <<>> THEN ended ELSE Append(ended, rest)

LineKind(L) ==
    IF L = <<>> THEN "blank"
    ELSE IF Head(L) \in {";", "; ", "; Multiple matches. Pick one"} THEN "comment"
    ELSE IF Head(L) = " " THEN "posting"
    ELSE "date"

\* the indices of the date lines, ascending
DateIdx(L) == SelectSeq([k \in 1..Len(L) |-> k], LAMBDA k : LineKind(L[k]) = "date")

\* the last of the posting lines that follow date line k
GroupEnd(L, k) ==
    CHOOSE m \in k..Len(L) :
        /\ \A j \in (k+1)..m : LineKind(L[j]) = "posting"
        /\ (m = Len(L) \/ LineKind(L[m+1]) # "posting")

\* the posting groups of a text: a date line and the posting lines under it
Groups(text) ==
    LET L == Lines(text)
        D == DateIdx(L)
    IN  [g \in 1..Len(D) |->
            [date |-> L[D[g]], postings |-> SubSeq(L, D[g] + 1, GroupEnd(L, D[g]))]]

GroupTitle(g) == g.date[Len(g.date)]

FirstNonSpace(L) == CHOOSE k \in 1..Len(L) : L[k] # " " /\ \A j \in 1..(k-1) : L[j] = " "
LastSpace(L) == CHOOSE k \in 1..Len(L) : L[k] = " " /\ \A j \in (k+1)..Len(L) : L[j] # " "

PostingAccount(L) == L[FirstNonSpace(L)]
PostingAmount(L) == SubSeq(L, LastSpace(L) + 1, Len(L))
\* what follows the second indent: currency, blank, amount
PostingValue(L) == SubSeq(L, FirstNonSpace(L) + FirstNonSpace(L), Len(L))

GroupAccounts(g) == [k \in 1..Len(g.postings) |-> PostingAccount(g.postings[k])]

Digits == {"0", "1", "2", "3", "4", "5", "6", "7", "8", "9"}
DigitValue(c) == CHOOSE n \in 0..9 : c = <<"0", "1", "2", "3", "4", "5", "6", "7", "8", "9">>[n + 1]

RECURSIVE Number(_)
Number(s) == IF s = <<>> THEN 0 ELSE 10 * Number(SubSeq(s, 1, Len(s) - 1)) + DigitValue(s[Len(s)])

Unsigned(s) == IF s # <<>> /\ s[1] = "-" THEN Tail(s) ELSE s
SeparatorIdx(s) == {k \in 1..Len(s) : s[k] \in {",", "."}}

\* a decimal literal: an optional sign, digits, at most one separator, at most
\* two fractional digits
IsAmount(s) ==
    LET u == Unsigned(s) IN
    /\ u # <<>>
    /\ \A k \in 1..Len(u) : u[k] \in Digits \cup {",", "."}
    /\ Cardinality(SeparatorIdx(u)) <= 1
    /\ \A k \in SeparatorIdx(u) : k > 1 /\ Len(u) - k \in {1, 2}

\* the value of a decimal literal, in hundredths
AmountValue(s) ==
    LET u == Unsigned(s)
        sep == SeparatorIdx(u)
        abs == IF sep = {} THEN 100 * Number(u)
               ELSE LET k == CHOOSE x \in sep : TRUE
                        frac == SubSeq(u, k + 1, Len(u))
                    IN  100 * Number(SubSeq(u, 1, k - 1))
                        + (IF Len(frac) = 1 THEN 10 * Number(frac) ELSE Number(frac))
    IN  IF u = s THEN abs ELSE 0 - abs

RECURSIVE SumAmounts(_)
SumAmounts(postings) ==
    IF postings = <<>> THEN 0
    ELSE AmountValue(PostingAmount(Head(postings))) + SumAmounts(Tail(postings))

\* the texts entry_template has rendered for the current Entry
Rendered ==
    {r.text : r \in {x \in {entry_string, template, prev.build, prev.template} :
                     x.exc = NoExc}}

RenderedGroups == UNION {{Groups(t)[g] : g \in 1..Len(Groups(t))} : t \in Rendered}

Resolved == pc \in {"built", "crashed"} /\ calls.build >= 1

\* the rules of the rule set that pass the account filter and the dbtr filter,
\* and those of them that pass the cdtr filter, as indices into options.rules
Passes(rule, key, val) == key \notin DOMAIN rule \/ rule[key] = val
DbtrPassing ==
    SelectSeq([k \in 1..Len(options.rules) |-> k],
              LAMBDA k : /\ Passes(options.rules[k], "account", options.account)
                         /\ Passes(options.rules[k], "dbtr", e.debitor))
CdtrPassing == SelectSeq(DbtrPassing, LAMBDA k : Passes(options.rules[k], "cdtr", e.creditor))

Range(s) == {s[k] : k \in 1..Len(s)}
LastOf(s) == s[Len(s)]
ReturnedGroups == Groups(entry_string.text)
SplitAccounts(s) == [k \in 1..Len(PyEvalSplit(s)) |-> PyEvalSplit(s)[k].acc]

\* the accounts a posting group shows for creditor_acc c and debitor_acc d
ExpectedAccounts(c, d) ==
    (IF StartsWithBrackets(c) THEN SplitAccounts(c) ELSE <<c>>) \o <<Str(d)>>

\* the extraction expression of field f is missing, or reads an element the row lacks
Unevaluable(f) ==
    IF options[f].kind = "none" THEN TRUE ELSE options[f].tag \notin DOMAIN EL

Ambiguous == Resolved /\ Len(DbtrPassing) >= 2 /\ Len(CdtrPassing) >= 2

----------------------------------------------------------------------------
(* The claims *)

\* C1: in every posting group entry_template renders, the amounts of the posting
\* lines sum to zero, the split case included.
C1_Balanced ==
    \A g \in RenderedGroups :
        (\A k \in 1..Len(g.postings) : IsAmount(PostingAmount(g.postings[k])))
            => SumAmounts(g.postings) = 0

\* C1 holds of the groups whose creditor side is a single account.
C1_BalancedUnlessSplit ==
    \A g \in RenderedGroups :
        (/\ Len(g.postings) = 2
         /\ \A k \in 1..Len(g.postings) : IsAmount(PostingAmount(g.postings[k])))
            => SumAmounts(g.postings) = 0

\* C2: no posting line shows an amount with '.', and for amount "123.45" and
\* currency "EUR" the debitor line shows  EUR -123,45.
C2_CommaSeparator ==
    \A g \in RenderedGroups :
        /\ \A k \in 1..Len(g.postings) : "." \notin Range(PostingAmount(g.postings[k]))
        /\ (e.amount = <<"1", "2", "3", ".", "4", "5">> /\ e.currency = <<"E", "U", "R">>)
              => PostingValue(LastOf(g.postings))
                   = <<"E", "U", "R", " ", "-", "1", "2", "3", ",", "4", "5">>

\* C3: build_entry_string never raises and returns at least one posting group.
C3_NeverRaises ==
    calls.build >= 1 =>
        /\ entry_string.exc = NoExc
        /\ Len(ReturnedGroups) >= 1

\* C4: a field whose extraction expression is missing or cannot be evaluated on
\* the row gets the placeholder, the Entry is constructed and main goes on.
C4_Placeholder ==
    EL # NoEntry =>
        /\ e # NoEntry
        /\ \A f \in FieldSet : Unevaluable(f) => e[f] = NoneStr(f)

\* C5: exactly one rule passes the dbtr filter: title, debitor_acc and
\* creditor_acc come from that rule (creditor, None, def_asset_acc when it lacks
\* them), the cdtr filter is not consulted, and one posting group is emitted.
C5_SingleIncome ==
    (Resolved /\ Len(DbtrPassing) = 1) =>
        LET m == options.rules[DbtrPassing[1]] IN
        /\ e.title = Get(m, "title", e.creditor)
        /\ e.debitor_acc = Get(m, "dbtr_acc", PyNone)
        /\ e.creditor_acc = Get(m, "cdtr_acc", options.def_asset_acc)
        /\ entry_string.exc = NoExc
        /\ Len(ReturnedGroups) = 1
        /\ GroupTitle(ReturnedGroups[1]) = e.title
        /\ GroupAccounts(ReturnedGroups[1]) = ExpectedAccounts(e.creditor_acc, e.debitor_acc)

\* C5 without its last part: the assignments, and the group when one is returned.
C5_SingleIncomeWhenReturned ==
    (Resolved /\ Len(DbtrPassing) = 1) =>
        LET m == options.rules[DbtrPassing[1]] IN
        /\ e.title = Get(m, "title", e.creditor)
        /\ e.debitor_acc = Get(m, "dbtr_acc", PyNone)
        /\ e.creditor_acc = Get(m, "cdtr_acc", options.def_asset_acc)
        /\ entry_string.exc = NoExc =>
             /\ Len(ReturnedGroups) = 1
             /\ GroupTitle(ReturnedGroups[1]) = e.title
             /\ GroupAccounts(ReturnedGroups[1])
                  = ExpectedAccounts(e.creditor_acc, e.debitor_acc)

\* C6: no rule passes the dbtr filter: title is the debitor, creditor_acc the
\* default asset account, debitor_acc "Income:???", and one posting group is emitted.
C6_UnmatchedIncoming ==
    (Resolved /\ Len(DbtrPassing) = 0) =>
        /\ e.title = e.debitor
        /\ e.creditor_acc = options.def_asset_acc
        /\ e.debitor_acc = "Income:???"
        /\ entry_string.exc = NoExc
        /\ Len(ReturnedGroups) = 1
        /\ GroupTitle(ReturnedGroups[1]) = e.debitor
        /\ GroupAccounts(ReturnedGroups[1]) = <<options.def_asset_acc, "Income:???">>

\* C6 without its last part: the assignments, and the group when one is returned.
C6_UnmatchedIncomingWhenReturned ==
    (Resolved /\ Len(DbtrPassing) = 0) =>
        /\ e.title = e.debitor
        /\ e.creditor_acc = options.def_asset_acc
        /\ e.debitor_acc = "Income:???"
        /\ entry_string.exc = NoExc =>
             /\ Len(ReturnedGroups) = 1
             /\ GroupTitle(ReturnedGroups[1]) = e.debitor
             /\ GroupAccounts(ReturnedGroups[1]) = <<options.def_asset_acc, "Income:???">>

\* the k-th posting group is the one of the k-th creditor-matching rule
GroupOfCandidate(k) ==
    LET m == options.rules[CdtrPassing[k]]
        g == ReturnedGroups[k]
    IN  /\ GroupTitle(g) = Get(m, "title", e.creditor)
        /\ "cdtr_acc" \in DOMAIN m
        /\ GroupAccounts(g)
             = ExpectedAccounts(m.cdtr_acc, Get(m, "dbtr_acc", options.def_asset_acc))

\* C7: two or more rules pass the dbtr filter and two or more of them the cdtr
\* filter: one posting group per creditor-matching rule and no other, each with
\* that rule's title and accounts, in rule-set order.
C7_OnePerCandidate ==
    Ambiguous =>
        /\ entry_string.exc = NoExc
        /\ Len(ReturnedGroups) = Len(CdtrPassing)
        /\ \A k \in 1..Len(CdtrPassing) : GroupOfCandidate(k)

\* C7 of the calls that return.
C7_OnePerCandidateWhenReturned ==
    (Ambiguous /\ entry_string.exc = NoExc) =>
        /\ Len(ReturnedGroups) = Len(CdtrPassing)
        /\ \A k \in 1..Len(CdtrPassing) : GroupOfCandidate(k)

\* the K-th smallest element of a set of indices
Nth(S, j) == CHOOSE k \in S : Cardinality({i \in S : i <= k}) = j

\* result holds exactly the rules of the input that lack key or hold val for it,
\* each once, unmodified, in the order of the input
IsSelection(c) ==
    LET kept == {k \in 1..Len(c.rules) : Passes(c.rules[k], c.key, c.val)} IN
    /\ Len(c.result) = Cardinality(kept)
    /\ \A j \in 1..Len(c.result) : c.result[j] = c.rules[Nth(kept, j)]

C8_Stages ==
    Resolved =>
        /\ \A j \in 1..Len(filter_log) : IsSelection(filter_log[j])
        /\ Len(filter_log) >= 2
        /\ filter_log[1].rules = options.rules
        /\ filter_log[1].key = "account" /\ filter_log[1].val = options.account
        /\ filter_log[2].rules = filter_log[1].result
        /\ filter_log[2].key = "dbtr" /\ filter_log[2].val = e.debitor
        /\ Len(filter_log) = (IF Len(filter_log[2].result) >= 2 THEN 3 ELSE 2)
        /\ Len(filter_log) = 3 =>
             /\ filter_log[3].rules = filter_log[2].result
             /\ filter_log[3].key = "cdtr" /\ filter_log[3].val = e.creditor

\* C8: every filter_rules call returns exactly the rules without the key or with
\* the value, in order, unduplicated and unmodified; the calls are account, then
\* dbtr, then cdtr only if the dbtr stage kept two or more rules; the rule set
\* is never written.
C8_FilterRules == []C8_Stages /\ [][options' = options]_vars

\* C8 case: the wildcard keeps a rule at the dbtr stage and the cdtr stage drops one
C8_Witness ==
    /\ Resolved
    /\ Len(filter_log) = 3
    /\ Len(filter_log[3].result) = 1
    /\ Len(filter_log[3].rules) = 2
    /\ \E j \in 1..2 : "dbtr" \notin DOMAIN filter_log[2].result[j]

\* C9: a second call of build_info_string, build_entry_string or entry_template
\* on the same Entry gives the result of the first call, although the first
\* build_entry_string call has assigned title, creditor_acc and debitor_acc.
C9_Idempotent ==
    /\ calls.info >= 2 => info_string = prev.info
    /\ calls.build >= 2 => entry_string = prev.build
    /\ calls.template >= 2 => template = prev.template

\* C9 case: every method called twice on an ambiguous Entry whose title the
\* first call has changed
C9_Witness ==
    /\ calls.info = 2 /\ calls.build = 2 /\ calls.template = 2
    /\ entry_string.exc = NoExc
    /\ Len(ReturnedGroups) >= 2
    /\ e.title # e.creditor

\* C10: the text returned in the ambiguous outcome is the "multiple matches"
\* comment, then the N posting groups, a blank line between every two of them.
C10_BlankLineSeparated ==
    (Ambiguous /\ entry_string.exc = NoExc) =>
        LET L == Lines(entry_string.text)
            D == DateIdx(L)
        IN  /\ SubSeq(entry_string.text, 1, Len(MultipleHeader)) = MultipleHeader
            /\ Len(D) = Len(CdtrPassing)
            /\ \A g \in 2..Len(D) : LineKind(L[D[g] - 1]) = "blank"

\* C10 as the code has it: a line break, and no blank line, between two groups.
C10_LineBreakSeparated ==
    (Ambiguous /\ entry_string.exc = NoExc) =>
        LET L == Lines(entry_string.text)
            D == DateIdx(L)
        IN  /\ SubSeq(entry_string.text, 1, Len(MultipleHeader)) = MultipleHeader
            /\ Len(D) = Len(CdtrPassing)
            /\ \A g \in 2..Len(D) : LineKind(L[D[g] - 1]) = "posting"

====
